---- MODULE Spec2Model ----
(***************************************************************************)
(* SurfaceFactory (CompositionSurfaceFactory/SurfaceFactory.cpp) as a      *)
(* state machine: one factory, its lock, the rendering devices and the     *)
(* compositing device of the backend, the drawing surfaces, the caller     *)
(* threads that run the factory's operations statement by statement, the   *)
(* device-lost handler, the device-replaced re-dispatch and Uninitialize.  *)
(***************************************************************************)
EXTENDS Integers, Sequences, FiniteSets, TLC

\* ------------------------------------------------------------------ bounds
MaxOps == 2       \* operations the callers issue in one behaviour
MaxLost == 1      \* device losses / external device replacements

\* --------------------------------------------------------------- constants
BytesPerPixel == 4   \* B8G8R8A8UIntNormalized
NullDev == 0         \* a null CanvasDevice^ / no surface
Tasks == {"t1", "t2"}
Empty == <<-1, -1>>                  \* Size::Empty
NullUri == "null"
Uris == {NullUri, "img"}
ReqSizes == {Empty, <<2, 1>>}        \* requested sizes the callers pass
NewSizes == {<<3, 3>>}               \* sizes passed to ResizeSurface
PixelDims == {<<2, 1>>}              \* widthInPixels, heightInPixels
ByteLens == {8, 12}                  \* bytes->Length

VARIABLES
    m_compositor,              \* "comp" | "null"
    m_canvasDevice,            \* device id | NullDev
    m_graphicsDevice,          \* "gd" | "null"
    m_drawingLock,             \* "lock" | "null"
    m_deviceLostHelper,        \* "helper" | "null"
    m_isGraphicsDeviceCreator, \* BOOLEAN
    registered,                \* OnRenderingDeviceReplacedHandler is subscribed
    devices,                   \* backend: rendering devices ever created
    disposed,                  \* backend: ids of disposed rendering devices
    lost,                      \* backend: ids of lost rendering devices
    bound,                     \* backend: device the compositing device uses
    gdDisposed,                \* backend: the compositing device was disposed
    watched,                   \* device the device-loss watcher observes
    lockHolder,                \* "free" | task | "un"
    surfaces,                  \* drawing surfaces ever created
    task,                      \* the callers' threads
    dl,                        \* the device-lost handler
    un,                        \* Uninitialize / the destructor
    peer,                      \* another factory on the same compositing device
    ev                         \* notifications in flight and counters

vars == <<m_compositor, m_canvasDevice, m_graphicsDevice, m_drawingLock,
          m_deviceLostHelper, m_isGraphicsDeviceCreator, registered, devices,
          disposed, lost, bound, gdDisposed, watched, lockHolder, surfaces,
          task, dl, un, peer, ev>>

factoryVars == <<m_compositor, m_canvasDevice, m_graphicsDevice, m_drawingLock,
                 m_deviceLostHelper, m_isGraphicsDeviceCreator, registered>>
backendVars == <<devices, disposed, lost, bound, gdDisposed, watched>>

\* ----------------------------------------------------------------- helpers
IsEmpty(size) == size[1] < 0

\* The decoded size of the image behind a URI (external decoder).
NativeSize(uri) == <<2, 2>>

\* CreateUriSurface and CreateUriSurfaceAsync run the same steps as these two
\* (UriSurface::Create calls CreateSurface, RedrawSurfaceAsync calls
\* DrawSurface), so each pair is one operation here.
FireAndForgetOps == {"CreateSurfaceFromUri"}
AwaitableOps == {"CreateSurfaceFromUriAsync"}
FromUriOps == FireAndForgetOps \cup AwaitableOps

NewSurface(size) ==
    [size |-> size, content |-> "none", src |-> "none", bdev |-> NullDev,
     dst |-> <<0, 0>>]

IdleTask ==
    [pc |-> "idle", op |-> "none", uri |-> NullUri, size |-> Empty,
     surf |-> NullDev, gdev |-> "null", cdev |-> NullDev, bsize |-> Empty,
     dims |-> <<0, 0>>, len |-> 0, returned |-> FALSE]

IdleHandler == [pc |-> "idle", soft |-> FALSE, pre |-> NullDev, res |-> "none"]


\* ------------------------------------------------------------ construction
\* CreateDevice as the owning constructor runs it: both members are still
\* null, so a rendering device is created and watched and the compositing
\* device is created on it and subscribed to.
CreateDevice(useSoftwareRenderer) ==
    /\ m_compositor = "comp" /\ m_isGraphicsDeviceCreator
    /\ devices = <<[soft |-> useSoftwareRenderer, owner |-> "factory"]>>
    /\ m_canvasDevice = 1
    /\ watched = 1
    /\ m_graphicsDevice = "gd"
    /\ bound = 1
    /\ registered = TRUE

\* SurfaceFactory(Compositor^, SurfaceFactoryOptions)
OwningCtor(useSoftwareRenderer) ==
    /\ m_compositor = "comp"
    /\ m_drawingLock = "lock"
    /\ m_isGraphicsDeviceCreator = TRUE
    /\ m_deviceLostHelper = "helper"
    /\ CreateDevice(useSoftwareRenderer)

\* A constructor that would make a lock of its own whatever it is given.
CtorLockAlwaysNew(lock) == "lock"

\* if (lock == nullptr) m_drawingLock = ref new Lock(); else m_drawingLock =
\* lock; "lock" is the Lock the constructor makes, "shared" one the caller
\* passes in.
CtorLock(lock) == IF lock = "null" THEN "lock" ELSE lock

\* SurfaceFactory(CompositionGraphicsDevice^, Lock^): the compositing device
\* and its rendering device belong to the caller; with or without a lock
\* argument the factory ends up holding a lock.
BorrowingCtor(lock) ==
    /\ m_compositor = "comp"
    /\ m_graphicsDevice = "gd"
    /\ m_isGraphicsDeviceCreator = FALSE
    /\ m_drawingLock = CtorLock(lock)
    /\ registered = TRUE
    /\ m_canvasDevice = NullDev
    /\ m_deviceLostHelper = "null"
    /\ devices = <<[soft |-> FALSE, owner |-> "external"]>>
    /\ bound = 1
    /\ watched = NullDev

\* No other factory works on the compositing device.
NoPeer == [pc |-> "absent", given |-> "null"]

\* The backend and the callers when a factory has just been constructed.
Constructed ==
    /\ disposed = {}
    /\ lost = {}
    /\ gdDisposed = FALSE
    /\ lockHolder = "free"
    /\ surfaces = <<>>
    /\ task = [t \in Tasks |-> IdleTask]
    /\ dl = IdleHandler
    /\ un = [pc |-> "idle", done |-> 0]
    /\ ev = [dlQueue |-> 0, backendQ |-> 0, posted |-> 0, delivered |-> 0,
             raised |-> 0, ops |-> 0, losses |-> 0]

\* CreateFromCompositor with either renderer, or CreateFromGraphicsDevice
\* without a lock argument, with no other factory around.
Init ==
    /\ \/ \E useSoftwareRenderer \in BOOLEAN : OwningCtor(useSoftwareRenderer)
       \/ BorrowingCtor("null")
    /\ Constructed
    /\ peer = NoPeer

\* Two factories made by CreateFromGraphicsDevice on one compositing device:
\* the other factory was given the caller's Lock "shared", this one is given
\* the same Lock or no lock argument.
LockArguments == {"null", "shared"}
SharedInit ==
    /\ \E lock \in LockArguments :
          /\ BorrowingCtor(lock)
          /\ peer = [pc |-> "idle", given |-> lock]
    /\ Constructed

\* ------------------------------------------------------------------- lock
\* Lock::GetLockSession on the handle read from m_drawingLock: a null handle
\* is a null dereference; otherwise the caller blocks until the lock is free.
LockIsNull == m_drawingLock = "null"
LockFree == lockHolder = "free"

\* The backend refuses work on a compositing device that was disposed.
BackendClosed == gdDisposed

\* --------------------------------------------------------- task plumbing
SetTask(t, r) == task' = [task EXCEPT ![t] = r]
SetSurface(s, r) == surfaces' = [surfaces EXCEPT ![s] = r]
TaskFrame == UNCHANGED <<factoryVars, backendVars, dl, un, peer, ev>>

\* The running operation ends with an exception; a lock session held by the
\* thread is released by its destructor.
Fault(t) ==
    /\ SetTask(t, IdleTask)
    /\ lockHolder' = IF lockHolder = t THEN "free" ELSE lockHolder

\* The running operation ends normally and its locals go out of scope.
Finish(r) == IdleTask

\* A thread starts an operation. The threads are interchangeable, so an
\* operation is given to the second thread only while the first is busy.
Begin(t, r) ==
    /\ task[t].pc = "idle"
    /\ ev.ops < MaxOps
    /\ t = "t2" => task["t1"].pc # "idle"
    /\ SetTask(t, r)
    /\ ev' = [ev EXCEPT !.ops = @ + 1]
    /\ UNCHANGED <<factoryVars, backendVars, lockHolder, surfaces, dl, un, peer>>

\* ----------------------------------------------------------- CreateSurface
\* A CreateSurface that would pass the requested size on as it is, Size::Empty
\* included, instead of starting an empty request at 0,0.
CreateSurfaceSizeAsGiven(size) == size

\* The size CreateSurface allocates for a requested size.
CreateSurfaceSize(size) == IF IsEmpty(size) THEN <<0, 0>> ELSE size

\* CreateSurface up to its lock: Size surfaceSize = size; ...
\* CompositionGraphicsDevice^ graphicsDevice = m_graphicsDevice;
CreateSurfaceEnter(op) ==
    [IdleTask EXCEPT !.pc = "cs_lock", !.op = op, !.gdev = m_graphicsDevice]

\* CreateSurface(size) called by a client.
CallCreateSurface(t, size) ==
    Begin(t, [CreateSurfaceEnter("CreateSurface") EXCEPT !.size = size])

\* CreateSurfaceFromUri(uri, size, interpolation) and
\* CreateSurfaceFromUriAsync(uri, size, interpolation), which the shorter
\* overloads call with Size::Empty; each starts with CreateSurface(size).
CallCreateFromUri(t, op, uri, size) ==
    Begin(t, [CreateSurfaceEnter(op) EXCEPT !.uri = uri, !.size = size])

\* CreateSurfaceFromBytes(bytes, widthInPixels, heightInPixels, size, ...)
CallCreateSurfaceFromBytes(t, len, dims, size) ==
    Begin(t, [CreateSurfaceEnter("CreateSurfaceFromBytes") EXCEPT
                 !.len = len, !.dims = dims, !.size = size])

\* auto lockSession = m_drawingLock->GetLockSession();
CreateSurface_Lock(t) ==
    /\ task[t].pc = "cs_lock"
    /\ IF LockIsNull
       THEN Fault(t)
       ELSE /\ LockFree
            /\ lockHolder' = t
            /\ SetTask(t, [task[t] EXCEPT !.pc = "cs_create"])
    /\ UNCHANGED surfaces
    /\ TaskFrame

\* Where the operation goes on after CreateSurface has returned the surface.
AfterCreateSurface(r) ==
    IF r.op = "CreateSurface" THEN Finish(r)
    ELSE IF r.op = "CreateSurfaceFromBytes" THEN [r EXCEPT !.pc = "fb_getdev"]
    ELSE [r EXCEPT !.pc = "ds_getdev"]

\* surface = graphicsDevice->CreateDrawingSurface(surfaceSize, ...); the lock
\* session ends with the block and CreateSurface returns the surface.
CreateSurface_Create(t) ==
    /\ task[t].pc = "cs_create"
    /\ IF task[t].gdev = "null" \/ BackendClosed
       THEN Fault(t) /\ UNCHANGED surfaces
       ELSE /\ surfaces' = Append(surfaces, NewSurface(CreateSurfaceSize(task[t].size)))
            /\ lockHolder' = "free"
            /\ SetTask(t, AfterCreateSurface(
                   [task[t] EXCEPT !.surf = Len(surfaces) + 1, !.gdev = "null"]))
    /\ TaskFrame

\* ------------------------------------------------------------- DrawSurface
\* A null-URI draw that would collapse the surface to 0,0 instead of 1,1.
NullUriSizeZero == <<0, 0>>

\* The size of the placeholder a null URI is drawn as.
NullUriSize == <<1, 1>>

\* A drawing session that would not clear the surface before it draws.
ClearSkipped(r) == r

\* What Clear(Transparent) leaves of a surface.
Cleared(r) == [r EXCEPT !.content = "transparent", !.src = "none",
                        !.bdev = NullDev, !.dst = <<0, 0>>]

\* DrawSurface(surface, uri, size, interpolation) on a surface created
\* earlier: the redraw of a UriSurface.
CallDrawSurface(t, s, uri, size) ==
    /\ s \in 1..Len(surfaces)
    /\ Begin(t, [IdleTask EXCEPT !.pc = "ds_getdev", !.op = "DrawSurface",
                                 !.surf = s, !.uri = uri, !.size = size])

\* A from-URI creation none of whose forms would wait for the draw.
ReturnsAtSuspensionAlways(op) == TRUE

\* Whether the caller of a from-URI creation has the surface back once
\* DrawSurface has suspended at the load: CreateSurfaceFromUri does not
\* await the draw; CreateSurfaceFromUriAsync returns drawTask.get().
ReturnsAtSuspension(op) == op \in FireAndForgetOps

\* A draw that would take the factory's own device field instead of asking
\* the compositing device.
GetCanvasDeviceFromField == m_canvasDevice

\* CanvasComposition::GetCanvasDevice(m_graphicsDevice): the rendering device
\* bound to the compositing device at the time of the call.
GetCanvasDevice == bound

\* A DrawSurface that would open its lock session before it starts the load,
\* and so would keep the lock while it is suspended.
DrawSurface_GetDeviceLocked(t) ==
    /\ task[t].pc = "ds_getdev"
    /\ LockFree
    /\ lockHolder' = t
    /\ SetTask(t, [task[t] EXCEPT !.cdev = GetCanvasDevice, !.pc = "ds_load",
                       !.returned = task[t].op \in FireAndForgetOps])
    /\ UNCHANGED surfaces
    /\ TaskFrame

\* auto canvasDevice = CanvasComposition::GetCanvasDevice(m_graphicsDevice);
\* with a URI the load is started on that device and the coroutine suspends,
\* which hands control back to the caller of DrawSurface.
DrawSurface_GetDevice(t) ==
    /\ task[t].pc = "ds_getdev"
    /\ IF m_graphicsDevice = "null" \/ BackendClosed
       THEN Fault(t)
       ELSE /\ SetTask(t, IF task[t].uri = NullUri
                          THEN [task[t] EXCEPT !.cdev = GetCanvasDevice, !.pc = "ds_lock"]
                          ELSE [task[t] EXCEPT !.cdev = GetCanvasDevice, !.pc = "ds_load",
                                   !.returned = ReturnsAtSuspension(task[t].op)])
            /\ UNCHANGED lockHolder
    /\ UNCHANGED surfaces
    /\ TaskFrame

\* A rendering device the backend can no longer work with.
DeviceUnusable(d) == d \in lost \cup disposed

\* CanvasBitmap::LoadAsync(canvasDevice, uri) in the backend: the load fails
\* on a device that is lost or closed.
LoadFails(canvasDevice) == DeviceUnusable(canvasDevice)

\* CanvasComposition::CreateDrawingSession(surface) ... DrawImage(bitmap) in
\* the backend: the session draws with the rendering device bound to the
\* compositing device; it fails when that device is lost or closed, or when
\* the bitmap belongs to another device.
SessionFails(bitmapDevice) ==
    \/ DeviceUnusable(bound)
    \/ bitmapDevice # NullDev /\ bitmapDevice # bound

\* Null URI: auto lockSession = m_drawingLock->GetLockSession();
DrawSurface_Lock(t) ==
    /\ task[t].pc = "ds_lock"
    /\ IF LockIsNull
       THEN Fault(t)
       ELSE /\ LockFree
            /\ lockHolder' = t
            /\ SetTask(t, [task[t] EXCEPT !.pc = "ds_clear"])
    /\ UNCHANGED surfaces
    /\ TaskFrame

\* CanvasComposition::Resize(surface, {1, 1});
\* auto session = CanvasComposition::CreateDrawingSession(surface);
\* session->Clear(Colors::Transparent); the session and the lock session end.
\* A session that fails leaves the resize in place.
DrawSurface_Clear(t) ==
    /\ task[t].pc = "ds_clear"
    /\ IF BackendClosed
       THEN Fault(t) /\ UNCHANGED surfaces
       ELSE LET resized == [surfaces[task[t].surf] EXCEPT !.size = NullUriSize]
            IN IF SessionFails(NullDev)
               THEN SetSurface(task[t].surf, resized) /\ Fault(t)
               ELSE /\ SetSurface(task[t].surf, Cleared(resized))
                    /\ lockHolder' = "free"
                    /\ SetTask(t, Finish(task[t]))
    /\ TaskFrame

\* -------------------------------------------------------------- DrawBitmap
\* if (surfaceSize.IsEmpty): the surface takes the bitmap's size.
DrawBitmapResizes(size) == IsEmpty(size)

\* Rect surfaceRect = { 0, 0, surfaceSize.Width, surfaceSize.Height };
SurfaceRect(size, bitmapSize) == IF IsEmpty(size) THEN bitmapSize ELSE size

\* What DrawImage(canvasBitmap, surfaceRect, bitmapRect, 1.0f, ...) leaves of
\* a surface: the bitmap is composited over what the surface holds.
Drawn(r, src, bdev, dst) ==
    [r EXCEPT !.content = IF r.content \in {"none", "transparent"}
                          THEN "image" ELSE "blend",
              !.src = src, !.bdev = bdev, !.dst = dst]

\* DrawBitmap from its start to its lock session:
\* auto bitmapSize = canvasBitmap->Size;
\* auto lockSession = m_drawingLock->GetLockSession();
DrawBitmapEnter(t, bitmapSize) ==
    /\ IF LockIsNull
       THEN Fault(t)
       ELSE /\ LockFree
            /\ lockHolder' = t
            /\ SetTask(t, [task[t] EXCEPT !.pc = "db_draw", !.bsize = bitmapSize])
    /\ UNCHANGED surfaces
    /\ TaskFrame

\* co_await CanvasBitmap::LoadAsync(canvasDevice, uri) resumes: with the
\* failure of the load, which ends the task, or with the bitmap, and then
\* DrawSurface calls DrawBitmap(surface, canvasBitmap, size, interpolation).
DrawSurface_Resume(t) ==
    /\ task[t].pc = "ds_load"
    /\ IF LoadFails(task[t].cdev)
       THEN Fault(t) /\ UNCHANGED surfaces /\ TaskFrame
       ELSE DrawBitmapEnter(t, NativeSize(task[t].uri))

\* DrawBitmap called by CreateSurfaceFromBytes.
DrawBitmap_Lock(t) ==
    /\ task[t].pc = "db_lock"
    /\ DrawBitmapEnter(t, task[t].bsize)

\* The surface a DrawBitmap works on once its resize is done:
\* if (surfaceSize.IsEmpty) CanvasComposition::Resize(surface, bitmapSize);
DrawBitmapResized(r, size, bitmapSize) ==
    IF DrawBitmapResizes(size) THEN [r EXCEPT !.size = bitmapSize] ELSE r

\* The source a task's bitmap was made from.
BitmapSource(r) == IF r.op = "CreateSurfaceFromBytes" THEN "bytes" ELSE r.uri

\* What one run of the draw pipeline makes of a surface when the backend
\* carries it out: the placeholder for a null URI, else the bitmap drawn by
\* DrawBitmap.
DrawPipeline(r, uri, size, bitmapSize, src, bdev) ==
    IF uri = NullUri
    THEN Cleared([r EXCEPT !.size = NullUriSize])
    ELSE Drawn(Cleared(DrawBitmapResized(r, size, bitmapSize)), src, bdev,
               SurfaceRect(size, bitmapSize))

\* The resize and the one drawing session of DrawBitmap:
\* CreateDrawingSession(surface); Clear(Transparent); DrawImage(...); the
\* session and the lock session end. A session that fails leaves the resize
\* in place.
DrawBitmap_Draw(t) ==
    /\ task[t].pc = "db_draw"
    /\ IF BackendClosed
       THEN Fault(t) /\ UNCHANGED surfaces
       ELSE LET resized == DrawBitmapResized(surfaces[task[t].surf],
                                             task[t].size, task[t].bsize)
            IN IF SessionFails(task[t].cdev)
               THEN SetSurface(task[t].surf, resized) /\ Fault(t)
               ELSE /\ SetSurface(task[t].surf,
                          Drawn(Cleared(resized), BitmapSource(task[t]),
                                task[t].cdev,
                                SurfaceRect(task[t].size, task[t].bsize)))
                    /\ lockHolder' = "free"
                    /\ SetTask(t, Finish(task[t]))
    /\ TaskFrame

\* ----------------------------------------------------------- ResizeSurface
\* ResizeSurface(surface, size) on a surface created earlier.
CallResizeSurface(t, s, size) ==
    /\ s \in 1..Len(surfaces)
    /\ Begin(t, [IdleTask EXCEPT !.pc = "rs_lock", !.op = "ResizeSurface",
                                 !.surf = s, !.size = size])

\* A ResizeSurface that would go on to Resize without opening a lock session.
ResizeSurface_LockSkipped(t) ==
    /\ task[t].pc = "rs_lock"
    /\ SetTask(t, [task[t] EXCEPT !.pc = "rs_resize"])
    /\ UNCHANGED <<lockHolder, surfaces>>
    /\ TaskFrame

\* auto lockSession = m_drawingLock->GetLockSession();
ResizeSurface_Lock(t) ==
    /\ task[t].pc = "rs_lock"
    /\ IF LockIsNull
       THEN Fault(t)
       ELSE /\ LockFree
            /\ lockHolder' = t
            /\ SetTask(t, [task[t] EXCEPT !.pc = "rs_resize"])
    /\ UNCHANGED surfaces
    /\ TaskFrame

\* CanvasComposition::Resize(surface, size); the lock session ends.
ResizeSurface_Resize(t) ==
    /\ task[t].pc = "rs_resize"
    /\ IF BackendClosed
       THEN Fault(t) /\ UNCHANGED surfaces
       ELSE LET resized == [surfaces[task[t].surf] EXCEPT !.size = task[t].size]
            IN /\ SetSurface(task[t].surf, resized)
               /\ lockHolder' = "free"
               /\ SetTask(t, Finish(task[t]))
    /\ TaskFrame

\* -------------------------------------------------- CreateSurfaceFromBytes
\* The length the pixel dimensions call for.
ExpectedLen(dims) == dims[1] * dims[2] * BytesPerPixel

\* CanvasBitmap::CreateFromBytes(canvasDevice, bytes, w, h, format) in the
\* backend: a buffer of the expected length gives a w x h bitmap; what the
\* backend does with any other length is its own business, it may take the
\* buffer or refuse it.
BackendMayTake(len, dims) == TRUE
BackendMayRefuse(len, dims) == len # ExpectedLen(dims)

\* auto canvasDevice = CanvasComposition::GetCanvasDevice(m_graphicsDevice);
\* auto canvasBitmap = CanvasBitmap::CreateFromBytes(canvasDevice, bytes, ...);
\* no statement of CreateSurfaceFromBytes looks at bytes->Length.
FromBytes_GetDevice(t) ==
    /\ task[t].pc = "fb_getdev"
    /\ IF m_graphicsDevice = "null" \/ BackendClosed
       THEN Fault(t)
       ELSE /\ \/ /\ BackendMayTake(task[t].len, task[t].dims)
                  /\ SetTask(t, [task[t] EXCEPT !.cdev = GetCanvasDevice, !.pc = "db_lock",
                                                !.bsize = task[t].dims])
               \/ /\ BackendMayRefuse(task[t].len, task[t].dims)
                  /\ SetTask(t, IdleTask)
            /\ UNCHANGED lockHolder
    /\ UNCHANGED surfaces
    /\ TaskFrame

\* ------------------------------------------------------------ Uninitialize
UnFrame == UNCHANGED <<surfaces, task, dl, peer, ev>>

\* Uninitialize is called, by a client or, through ~SurfaceFactory, when the
\* factory is deleted, and reaches its first statement:
\* auto lockSession = m_drawingLock->GetLockSession();
Uninitialize_Lock ==
    /\ un.pc = "idle"
    /\ IF LockIsNull
       THEN /\ un' = [un EXCEPT !.pc = "un_fault"]
            /\ UNCHANGED lockHolder
       ELSE /\ LockFree
            /\ lockHolder' = "un"
            /\ un' = [un EXCEPT !.pc = "un_stop"]
    /\ UNCHANGED <<factoryVars, backendVars>>
    /\ UnFrame

\* m_compositor = nullptr; if (m_canvasDevice != nullptr)
\* m_deviceLostHelper->StopWatchingCurrentDevice();
Uninitialize_StopWatching ==
    /\ un.pc = "un_stop"
    /\ m_compositor' = "null"
    /\ IF m_canvasDevice = NullDev
       THEN /\ un' = [un EXCEPT !.pc = "un_graphics"]
            /\ UNCHANGED <<watched, lockHolder>>
       ELSE IF m_deviceLostHelper = "null"
       THEN /\ un' = [un EXCEPT !.pc = "un_fault"]
            /\ lockHolder' = "free"
            /\ UNCHANGED watched
       ELSE /\ un' = [un EXCEPT !.pc = "un_canvas"]
            /\ watched' = NullDev
            /\ UNCHANGED lockHolder
    /\ UNCHANGED <<m_canvasDevice, m_graphicsDevice, m_drawingLock,
                   m_deviceLostHelper, m_isGraphicsDeviceCreator, registered,
                   devices, disposed, lost, bound, gdDisposed>>
    /\ UnFrame

\* m_deviceLostHelper = nullptr; m_canvasDevice->~CanvasDevice(); the device
\* disposed is the one m_canvasDevice names when the statement runs.
Uninitialize_CloseCanvasDevice ==
    /\ un.pc = "un_canvas"
    /\ m_deviceLostHelper' = "null"
    /\ IF m_canvasDevice = NullDev
       THEN /\ un' = [un EXCEPT !.pc = "un_fault"]
            /\ lockHolder' = "free"
            /\ UNCHANGED disposed
       ELSE /\ un' = [un EXCEPT !.pc = "un_null"]
            /\ disposed' = disposed \cup {m_canvasDevice}
            /\ UNCHANGED lockHolder
    /\ UNCHANGED <<m_compositor, m_canvasDevice, m_graphicsDevice, m_drawingLock,
                   m_isGraphicsDeviceCreator, registered, devices, lost, bound,
                   gdDisposed, watched>>
    /\ UnFrame

\* An Uninitialize that would dispose the compositing device whoever made it.
DisposesGraphicsDeviceAlways == TRUE

\* if (m_isGraphicsDeviceCreator): only then is the compositing device disposed.
DisposesGraphicsDevice == m_isGraphicsDeviceCreator

\* The rest of the block under the lock session: m_canvasDevice = nullptr
\* closes the first if; if (m_graphicsDevice != nullptr) { unsubscribe,
\* dispose if owned, drop }; the lock session ends with the block.
Uninitialize_Release ==
    /\ un.pc \in {"un_null", "un_graphics"}
    /\ m_canvasDevice' = (IF un.pc = "un_null" THEN NullDev ELSE m_canvasDevice)
    /\ IF m_graphicsDevice # "null"
       THEN /\ registered' = FALSE
            /\ gdDisposed' = (gdDisposed \/ DisposesGraphicsDevice)
            /\ m_graphicsDevice' = "null"
       ELSE UNCHANGED <<registered, gdDisposed, m_graphicsDevice>>
    /\ lockHolder' = "free"
    /\ un' = [un EXCEPT !.pc = "un_drop"]
    /\ UNCHANGED <<m_compositor, m_drawingLock, m_deviceLostHelper,
                   m_isGraphicsDeviceCreator, devices, disposed, lost, bound,
                   watched>>
    /\ UnFrame

\* m_drawingLock = nullptr;
Uninitialize_Drop ==
    /\ un.pc = "un_drop"
    /\ m_drawingLock' = "null"
    /\ un' = [un EXCEPT !.pc = "idle", !.done = @ + 1]
    /\ UNCHANGED <<m_compositor, m_canvasDevice, m_graphicsDevice,
                   m_deviceLostHelper, m_isGraphicsDeviceCreator, registered,
                   backendVars, lockHolder>>
    /\ UnFrame

\* The call that ended with an exception has unwound to its caller.
Uninitialize_Unwind ==
    /\ un.pc = "un_fault"
    /\ un' = [un EXCEPT !.pc = "idle"]
    /\ UNCHANGED <<factoryVars, backendVars, lockHolder>>
    /\ UnFrame

\* ------------------------------------------------------------ device loss
\* The watched rendering device is lost; the watcher dispatches one DeviceLost
\* notification for it to its own execution context.
DeviceLost ==
    /\ watched # NullDev
    /\ watched \notin lost
    /\ ev.losses < MaxLost
    /\ lost' = lost \cup {watched}
    /\ ev' = [ev EXCEPT !.losses = @ + 1, !.dlQueue = @ + 1]
    /\ UNCHANGED <<peer, factoryVars, devices, disposed, bound, gdDisposed, watched,
                   lockHolder, surfaces, task, dl, un>>

DlFault ==
    /\ dl' = [dl EXCEPT !.pc = "idle", !.res = "fault"]
    /\ lockHolder' = IF lockHolder = "dl" THEN "free" ELSE lockHolder

\* Whether OnDeviceLost takes the lock before it swaps the device: it opens
\* no lock session anywhere in its body.
OnDeviceLostLocks == FALSE

\* The flag the replacement device is created with.
ReplacementFlag(softwareRenderer) == softwareRenderer

\* bool softwareRenderer = m_canvasDevice->ForceSoftwareRenderer;
OnDeviceLost_Read ==
    /\ dl.pc = "idle"
    /\ ev.dlQueue > 0
    /\ IF OnDeviceLostLocks
       THEN LockFree /\ lockHolder' = (IF m_canvasDevice = NullDev THEN "free" ELSE "dl")
       ELSE UNCHANGED lockHolder
    /\ ev' = [ev EXCEPT !.dlQueue = @ - 1]
    /\ IF m_canvasDevice = NullDev
       THEN dl' = [dl EXCEPT !.pc = "idle", !.res = "fault", !.pre = bound]
       ELSE dl' = [dl EXCEPT !.pc = "dl_new", !.res = "none", !.pre = bound,
                             !.soft = devices[m_canvasDevice].soft]
    /\ UNCHANGED <<peer, factoryVars, backendVars, surfaces, task, un>>

\* m_canvasDevice = ref new CanvasDevice(softwareRenderer);
OnDeviceLost_New ==
    /\ dl.pc = "dl_new"
    /\ devices' = Append(devices, [soft |-> ReplacementFlag(dl.soft), owner |-> "factory"])
    /\ m_canvasDevice' = Len(devices) + 1
    /\ dl' = [dl EXCEPT !.pc = "dl_watch"]
    /\ UNCHANGED <<peer, m_compositor, m_graphicsDevice, m_drawingLock,
                   m_deviceLostHelper,
                   m_isGraphicsDeviceCreator, registered, disposed, lost, bound,
                   gdDisposed, watched, lockHolder, surfaces, task, un, ev>>

\* m_deviceLostHelper->WatchDevice(m_canvasDevice); a null helper, a null
\* device and a device that was disposed make the call throw.
OnDeviceLost_Watch ==
    /\ dl.pc = "dl_watch"
    /\ IF \/ m_deviceLostHelper = "null"
          \/ m_canvasDevice = NullDev
          \/ m_canvasDevice \in disposed
       THEN DlFault /\ UNCHANGED watched
       ELSE /\ watched' = m_canvasDevice
            /\ dl' = [dl EXCEPT !.pc = "dl_set"]
            /\ UNCHANGED lockHolder
    /\ UNCHANGED <<peer, factoryVars, devices, disposed, lost, bound, gdDisposed,
                   surfaces, task, un, ev>>

\* CanvasComposition::SetCanvasDevice(m_graphicsDevice, m_canvasDevice); the
\* backend then reports the replacement to the subscribers of the
\* compositing device.
OnDeviceLost_Set ==
    /\ dl.pc = "dl_set"
    /\ IF \/ m_graphicsDevice = "null"
          \/ BackendClosed
          \/ m_canvasDevice = NullDev
          \/ m_canvasDevice \in disposed
       THEN DlFault /\ UNCHANGED <<bound, ev>>
       ELSE /\ bound' = m_canvasDevice
            /\ ev' = [ev EXCEPT !.backendQ = @ + 1]
            /\ dl' = [dl EXCEPT !.pc = "idle", !.res = "ok"]
            /\ lockHolder' = IF lockHolder = "dl" THEN "free" ELSE lockHolder
    /\ UNCHANGED <<peer, factoryVars, devices, disposed, lost, gdDisposed, watched,
                   surfaces, task, un>>

\* The owner of a borrowed compositing device gives it another rendering
\* device; the backend reports the replacement.
ExternalReplace ==
    /\ ~m_isGraphicsDeviceCreator
    /\ ~gdDisposed
    /\ ev.losses < MaxLost
    /\ devices' = Append(devices, [soft |-> devices[bound].soft, owner |-> "external"])
    /\ bound' = Len(devices) + 1
    /\ ev' = [ev EXCEPT !.losses = @ + 1, !.backendQ = @ + 1]
    /\ UNCHANGED <<peer, factoryVars, disposed, lost, gdDisposed, watched, lockHolder,
                   surfaces, task, dl, un>>

\* ------------------------------------------------- device-replaced events
\* An OnRenderingDeviceReplaced that would raise DeviceReplaced itself, inside
\* the backend's callback, instead of posting a task.
OnRenderingDeviceReplacedInline ==
    /\ ev.backendQ > 0
    /\ registered
    /\ ev' = [ev EXCEPT !.backendQ = @ - 1, !.delivered = @ + 1, !.raised = @ + 1]
    /\ UNCHANGED <<peer, factoryVars, backendVars, lockHolder, surfaces, task, dl, un>>

\* OnRenderingDeviceReplaced: create_async posts the task that will raise
\* DeviceReplaced and returns.
OnRenderingDeviceReplaced ==
    /\ ev.backendQ > 0
    /\ registered
    /\ ev' = [ev EXCEPT !.backendQ = @ - 1, !.delivered = @ + 1, !.posted = @ + 1]
    /\ UNCHANGED <<peer, factoryVars, backendVars, lockHolder, surfaces, task, dl, un>>

\* The backend's notification finds the factory no longer subscribed.
NotifyNobody ==
    /\ ev.backendQ > 0
    /\ ~registered
    /\ ev' = [ev EXCEPT !.backendQ = @ - 1]
    /\ UNCHANGED <<peer, factoryVars, backendVars, lockHolder, surfaces, task, dl, un>>

\* RaiseDeviceReplacedEvent, run by the posted task: DeviceReplaced(this, args)
RaiseDeviceReplacedEvent ==
    /\ ev.posted > 0
    /\ ev' = [ev EXCEPT !.posted = @ - 1, !.raised = @ + 1]
    /\ UNCHANGED <<peer, factoryVars, backendVars, lockHolder, surfaces, task, dl, un>>

\* ------------------------------------------------------ the other factory
\* Whether the Lock the other factory works under is the one this factory
\* took at its construction.
PeerSharesLock == CtorLock(peer.given) = "shared"

PeerFrame == UNCHANGED <<factoryVars, backendVars, surfaces, task, dl, un>>

\* A client calls CreateSurface on the other factory.
Peer_Call ==
    /\ peer.pc = "idle"
    /\ ev.ops < MaxOps
    /\ peer' = [peer EXCEPT !.pc = "ps_lock"]
    /\ ev' = [ev EXCEPT !.ops = @ + 1]
    /\ UNCHANGED lockHolder
    /\ PeerFrame

\* The other factory's auto lockSession = m_drawingLock->GetLockSession();
Peer_Lock ==
    /\ peer.pc = "ps_lock"
    /\ IF PeerSharesLock
       THEN LockFree /\ lockHolder' = "peer"
       ELSE UNCHANGED lockHolder
    /\ peer' = [peer EXCEPT !.pc = "ps_create"]
    /\ UNCHANGED ev
    /\ PeerFrame

\* The other factory's CreateDrawingSurface on the compositing device; its
\* lock session ends.
Peer_Create ==
    /\ peer.pc = "ps_create"
    /\ lockHolder' = IF PeerSharesLock THEN "free" ELSE lockHolder
    /\ peer' = [peer EXCEPT !.pc = "idle"]
    /\ UNCHANGED ev
    /\ PeerFrame

\* ------------------------------------------------------------ specification
TaskStep(t) ==
    \/ CreateSurface_Lock(t)
    \/ CreateSurface_Create(t)
    \/ DrawSurface_GetDevice(t)
    \/ DrawSurface_Resume(t)
    \/ DrawSurface_Lock(t)
    \/ DrawSurface_Clear(t)
    \/ DrawBitmap_Lock(t)
    \/ DrawBitmap_Draw(t)
    \/ ResizeSurface_Lock(t)
    \/ ResizeSurface_Resize(t)
    \/ FromBytes_GetDevice(t)

\* The operations a client may call, with the requested sizes and the buffer
\* lengths it may pass.
Call(t, sizes, lens) ==
    \/ \E size \in sizes : CallCreateSurface(t, size)
    \/ \E op \in FromUriOps, uri \in Uris, size \in sizes :
          CallCreateFromUri(t, op, uri, size)
    \/ \E len \in lens, dims \in PixelDims :
          CallCreateSurfaceFromBytes(t, len, dims, Empty)
    \/ \E s \in 1..Len(surfaces), size \in NewSizes : CallResizeSurface(t, s, size)
    \/ \E s \in 1..Len(surfaces), uri \in Uris, size \in sizes :
          CallDrawSurface(t, s, uri, size)

UninitializeStep ==
    \/ Uninitialize_Lock
    \/ Uninitialize_StopWatching
    \/ Uninitialize_CloseCanvasDevice
    \/ Uninitialize_Release
    \/ Uninitialize_Drop
    \/ Uninitialize_Unwind

OnDeviceLostStep ==
    \/ OnDeviceLost_Read
    \/ OnDeviceLost_New
    \/ OnDeviceLost_Watch
    \/ OnDeviceLost_Set

NextOver(sizes, lens) ==
    \/ \E t \in Tasks : Call(t, sizes, lens)
    \/ \E t \in Tasks : TaskStep(t)
    \/ UninitializeStep
    \/ DeviceLost
    \/ OnDeviceLostStep
    \/ ExternalReplace
    \/ OnRenderingDeviceReplaced
    \/ NotifyNobody
    \/ RaiseDeviceReplacedEvent

Next == NextOver(ReqSizes, ByteLens)

Spec == Init /\ [][Next]_vars

\* Whether an operation ends and whether a posted task runs does not depend
\* on the size requested or on the length of the buffer, so the behaviours
\* under fairness draw them from one value each.
FairSizes == {Empty}
FairLens == {12}

\* Two borrowing factories on one compositing device: a borrowing factory
\* has no watcher and no rendering device of its own, so the device-lost
\* handler and the closing of the canvas device have no part in it.
SharedNext ==
    \/ \E t \in Tasks : Call(t, FairSizes, FairLens)
    \/ \E t \in Tasks : TaskStep(t)
    \/ Uninitialize_Lock
    \/ Uninitialize_StopWatching
    \/ Uninitialize_Release
    \/ Uninitialize_Drop
    \/ Uninitialize_Unwind
    \/ ExternalReplace
    \/ OnRenderingDeviceReplaced
    \/ NotifyNobody
    \/ RaiseDeviceReplacedEvent
    \/ Peer_Call
    \/ Peer_Lock
    \/ Peer_Create

SharedSpec == SharedInit /\ [][SharedNext]_vars

\* ---------------------------------------------------------------- fairness
\* What the scheduling of the program keeps going: a thread that can take its
\* next statement takes it, the watcher's and the backend's dispatchers
\* deliver what they hold, and the thread pool runs the tasks posted to it.
\* When clients call, when devices are lost and when the owner of a borrowed
\* device replaces it is up to the environment. One condition for all the
\* steps is weaker than one condition per thread, so what holds under it
\* holds under per-thread fairness as well.
Progress ==
    \/ \E t \in Tasks : TaskStep(t)
    \/ Uninitialize_StopWatching
    \/ Uninitialize_CloseCanvasDevice
    \/ Uninitialize_Release
    \/ Uninitialize_Drop
    \/ OnDeviceLostStep
    \/ OnRenderingDeviceReplaced
    \/ NotifyNobody
    \/ RaiseDeviceReplacedEvent

Fairness == WF_vars(Progress) /\ WF_vars(Uninitialize_Unwind)

FairNext == NextOver(FairSizes, FairLens)

FairSpec == Init /\ [][FairNext]_vars /\ Fairness

\* -------------------------------------------------------------- properties
LockPcs == {"cs_lock", "ds_lock", "db_lock", "rs_lock"}
SectionPcs == {"cs_create", "ds_clear", "db_draw", "rs_resize"}
PaintPcs == {"ds_clear", "db_draw"}
InSection(t) == task[t].pc \in SectionPcs
AllIdle == \A t \in Tasks : task[t].pc = "idle"
HasSurface(t) == task[t].surf \in 1..Len(surfaces)

\* The backend carries out the resize and the drawing session of the task
\* that holds the lock.
BackendDraws(t) == ~BackendClosed /\ ~SessionFails(task[t].cdev)

\* C1: once Uninitialize has completed, a further Uninitialize (a second
\* explicit call, or the destructor's call) does not fault.
UninitializeAgainDoesNotFault == (un.done > 0) => (un.pc # "un_fault")

\* C2: at most one operation is inside its surface-mutating section at any
\* time (a thread in such a section holds the lock), every change of a surface
\* or of the set of surfaces is made by the thread that holds the lock, and
\* every operation that was issued completes.
Serialized == \A t \in Tasks : InSection(t) => lockHolder = t

MutationUnderLock ==
    (surfaces' # surfaces) =>
        \E t \in Tasks :
            /\ lockHolder = t \/ (lockHolder = "free" /\ lockHolder' = t)
            /\ \A u \in Tasks \ {t} : lockHolder # u /\ task'[u] = task[u]

DrawsSerializedAndComplete ==
    /\ []Serialized
    /\ [][MutationUnderLock]_vars
    /\ <>[]AllIdle

\* C2, reached: one thread paints while the other waits for the lock.
DrawsContend ==
    \E t \in Tasks, u \in Tasks :
        /\ t # u
        /\ task[t].pc \in PaintPcs
        /\ task[u].pc \in LockPcs \cup {"ds_load"}
        /\ Len(surfaces) = 2

\* C3: while OnDeviceLost is between creating the new rendering device and
\* re-pointing the compositing device at it, it holds the lock.
OnDeviceLostHoldsLock ==
    (dl.pc \in {"dl_new", "dl_watch", "dl_set"}) => (lockHolder = "dl")

\* C4: when OnDeviceLost has handled a device-lost event, the rendering
\* device bound to the compositing device is a new handle, different from the
\* one bound before the event, with the software-renderer flag of that one,
\* and the factory's device, the bound device and the watched device are that
\* same new handle.
DeviceLostHandled == dl.pc = "dl_set" /\ dl'.pc = "idle" /\ dl'.res = "ok"

DeviceRecreated ==
    /\ bound' # dl.pre
    /\ bound' \notin 1..(Len(devices) - 1)
    /\ devices[bound'].soft = devices[dl.pre].soft
    /\ m_canvasDevice' = bound'
    /\ watched' = bound'

DeviceLostRecreatesDevice == [][DeviceLostHandled => DeviceRecreated]_vars

\* C5: a CreateSurfaceFromBytes whose buffer length is not w*h*4 is refused:
\* no bitmap is made of the buffer and nothing is drawn from it.
FromBytesLengthChecked ==
    \A t \in Tasks :
        (/\ task[t].op = "CreateSurfaceFromBytes"
         /\ task[t].len # ExpectedLen(task[t].dims))
        => task[t].pc \notin {"db_lock", "db_draw"}

\* C6: a draw with a null URI resizes the surface to 1x1 and clears it to
\* transparent inside one critical section: the lock is held from the resize
\* to the clear, and the draw ends with a 1x1 transparent surface whatever
\* size was requested.
NullUriDrawInSection ==
    \A t \in Tasks :
        task[t].pc = "ds_clear" =>
            /\ lockHolder = t
            /\ task[t].uri = NullUri

NullUriDrawSettles ==
    \A t \in Tasks :
        (task[t].pc = "ds_clear" /\ task'[t].pc # "ds_clear") =>
            /\ lockHolder' = "free"
            /\ ~BackendClosed /\ ~SessionFails(NullDev) =>
                  /\ surfaces'[task[t].surf].size = <<1, 1>>
                  /\ surfaces'[task[t].surf].content = "transparent"

NullUriDrawsPlaceholder == []NullUriDrawInSection /\ [][NullUriDrawSettles]_vars

\* C6, reached: CreateSurfaceFromUri(null, 2x1) has settled.
NullUriDrawSettled ==
    /\ Len(surfaces) = 1
    /\ surfaces[1].size = <<1, 1>>
    /\ surfaces[1].content = "transparent"
    /\ AllIdle
    /\ ev.ops = 1

\* C7: CreateSurface(S) returns a surface of size S for a non-empty S and of
\* size 0,0 for the empty size; a bitmap draw with an unspecified requested
\* size leaves the surface with the bitmap's native size.
CreateSurfaceReturnsSize ==
    \A t \in Tasks :
        (task[t].pc = "cs_create" /\ Len(surfaces') = Len(surfaces) + 1) =>
            surfaces'[Len(surfaces')].size =
                (IF task[t].size = Empty THEN <<0, 0>> ELSE task[t].size)

BitmapDrawTakesNativeSize ==
    \A t \in Tasks :
        (task[t].pc = "db_draw" /\ task'[t].pc = "idle" /\ task[t].size = Empty
         /\ ~BackendClosed) =>
            surfaces'[task[t].surf].size =
                (IF task[t].op = "CreateSurfaceFromBytes"
                 THEN task[t].dims ELSE NativeSize(task[t].uri))

SurfaceSizes == [][CreateSurfaceReturnsSize /\ BitmapDrawTakesNativeSize]_vars

\* C7, reached: a surface created empty and drawn from the image, and a
\* surface created with a size.
SurfacesSized ==
    /\ Len(surfaces) = 2
    /\ surfaces[1].size = NativeSize("img") /\ surfaces[1].content = "image"
    /\ surfaces[2].size = <<2, 1>> /\ surfaces[2].content = "none"

FromUriReturn ==
    \A t \in Tasks :
        /\ task[t].op \in AwaitableOps => ~task[t].returned
        /\ task[t].returned =>
              /\ HasSurface(t)
              /\ task[t].uri # NullUri
              /\ task[t].pc \in {"ds_load", "db_draw"}
        /\ (task[t].op \in FireAndForgetOps /\ task[t].pc \in {"ds_load", "db_draw"})
              => task[t].returned
        /\ (task[t].op \in FromUriOps /\ task[t].pc \in {"ds_lock", "ds_clear"})
              => (task[t].uri = NullUri /\ HasSurface(t))

AwaitableCompletes ==
    \A t \in Tasks :
        (task[t].op \in AwaitableOps /\ task'[t].pc = "idle") =>
            \/ /\ task[t].pc \in PaintPcs
               /\ HasSurface(t)
               /\ lockHolder = t /\ lockHolder' = "free"
               /\ BackendDraws(t) => surfaces'[task[t].surf].content # "none"
            \/ /\ task[t].pc \notin PaintPcs
               /\ surfaces' = surfaces

ContentChangesInPaint ==
    \A s \in 1..Len(surfaces) :
        (surfaces'[s].content # surfaces[s].content) =>
            \E t \in Tasks :
                /\ lockHolder = t
                /\ task[t].pc \in PaintPcs
                /\ task[t].surf = s

ReplacedAccounted == ev.delivered = ev.posted + ev.raised

CallbackOnlyPosts ==
    /\ (ev'.delivered # ev.delivered) =>
          /\ ev'.delivered = ev.delivered + 1
          /\ ev'.posted = ev.posted + 1
          /\ ev'.raised = ev.raised
    /\ (ev'.raised # ev.raised) =>
          /\ ev'.raised = ev.raised + 1
          /\ ev'.posted = ev.posted - 1
          /\ ev'.delivered = ev.delivered

DeviceReplacedReRaised ==
    /\ []ReplacedAccounted
    /\ [][CallbackOnlyPosts]_vars
    /\ <>[](ev.raised = ev.delivered)

\* C9, reached: a replacement made by OnDeviceLost was delivered and raised.
DeviceReplacedRaised ==
    /\ ev.delivered = 1 /\ ev.raised = 1 /\ ev.posted = 0
    /\ dl.res = "ok"

\* C10: a factory in borrowing mode creates no rendering device, watches
\* none, never runs the device-lost handler and disposes neither the
\* compositing device nor a rendering device; what is disposed at all was
\* created by the factory that disposes it.
BorrowingLeavesDevicesAlone ==
    /\ ~m_isGraphicsDeviceCreator =>
          /\ \A d \in 1..Len(devices) : devices[d].owner = "external"
          /\ m_canvasDevice = NullDev
          /\ m_deviceLostHelper = "null"
          /\ watched = NullDev
          /\ dl = IdleHandler /\ ev.dlQueue = 0
          /\ disposed = {}
          /\ ~gdDisposed
    /\ \A d \in disposed : devices[d].owner = "factory"
    /\ gdDisposed => m_isGraphicsDeviceCreator

\* C10, reached: a borrowing factory was uninitialized after its compositing
\* device had been given another rendering device.
BorrowingUninitialized ==
    /\ ~m_isGraphicsDeviceCreator
    /\ un.done = 1
    /\ m_graphicsDevice = "null"
    /\ Len(devices) = 2


\* C11 as stated: Uninitialize on a live factory makes all of its releases
\* inside one critical section under the lock: the device-replaced
\* registration is removed there and never comes back, in owning mode the
\* watcher is stopped and released and the rendering device and the
\* compositing device are released there, and the lock reference is dropped
\* only once the critical section has ended; when Uninitialize completes the
\* factory is subscribed to no backend notification and holds no rendering
\* device.
ReleasesUnderLock ==
    /\ registered # registered' => (lockHolder = "un" /\ ~registered')
    /\ (m_deviceLostHelper' # m_deviceLostHelper) => lockHolder = "un"
    /\ (disposed' # disposed \/ gdDisposed' # gdDisposed) => lockHolder = "un"
    /\ (m_drawingLock' # m_drawingLock) =>
          /\ un.pc = "un_drop"
          /\ lockHolder # "un"
          /\ m_drawingLock' = "null"

UninitializeCompletes == un.pc = "un_drop" /\ un'.pc = "idle" /\ un.done = 0

UninitializedFactory ==
    /\ ~registered'
    /\ m_graphicsDevice' = "null"
    /\ m_isGraphicsDeviceCreator =>
          /\ gdDisposed'
          /\ m_deviceLostHelper' = "null"
          /\ watched' = NullDev
          /\ m_canvasDevice' = NullDev

UninitializeReleasesAll ==
    [][ReleasesUnderLock /\ (UninitializeCompletes => UninitializedFactory)]_vars


\* C12 as stated: when the load of the URI or the paint of the draw of a
\* from-URI creation fails, the step that fails ends the draw with the lock
\* not held, the fire-and-forget form has returned its surface by then unless
\* the URI is null, and the surface keeps the size and the content it had
\* before the failed draw.
DrawFails(t) ==
    \/ task[t].pc = "ds_load" /\ LoadFails(task[t].cdev)
    \/ task[t].pc = "ds_clear" /\ (BackendClosed \/ SessionFails(NullDev))
    \/ task[t].pc = "db_draw" /\ (BackendClosed \/ SessionFails(task[t].cdev))

FailedDrawLeavesSurface ==
    \A t \in Tasks :
        (task[t].op \in FromUriOps /\ DrawFails(t) /\ task'[t] # task[t]) =>
            /\ task'[t].pc = "idle"
            /\ lockHolder' # t
            /\ (task[t].op \in FireAndForgetOps /\ task[t].uri # NullUri)
                  => task[t].returned
            /\ surfaces' = surfaces

FailedDrawKeepsSurface == [][FailedDrawLeavesSurface]_vars


\* C14: the draw pipeline is idempotent: a draw that the backend carries out
\* leaves the surface as one run of the pipeline makes it, and running the
\* pipeline once more with the same parameters and source on that surface
\* gives the same surface again, whatever the surface was before.
PaintCompletes(t) ==
    \/ /\ task[t].pc = "ds_clear"
       /\ ~BackendClosed /\ ~SessionFails(NullDev)
    \/ /\ task[t].pc = "db_draw"
       /\ BackendDraws(t)

PipelineOf(t, r) ==
    DrawPipeline(r, IF task[t].pc = "ds_clear" THEN NullUri ELSE BitmapSource(task[t]),
                 task[t].size, task[t].bsize, BitmapSource(task[t]),
                 IF task[t].pc = "ds_clear" THEN NullDev ELSE task[t].cdev)

SecondRunChangesNothing ==
    \A t \in Tasks :
        (PaintCompletes(t) /\ task'[t] # task[t]) =>
            /\ surfaces'[task[t].surf] = PipelineOf(t, surfaces[task[t].surf])
            /\ PipelineOf(t, surfaces'[task[t].surf]) = surfaces'[task[t].surf]

DrawIsIdempotent == [][SecondRunChangesNothing]_vars

\* C14, reached: a redraw with the image is about to paint a surface that
\* already holds what a draw with the same parameters and source left.
RedrawOfDrawnSurface ==
    \E t \in Tasks :
        /\ task[t].op = "DrawSurface"
        /\ task[t].pc = "db_draw"
        /\ BackendDraws(t)
        /\ surfaces[task[t].surf].content = "image"
        /\ surfaces[task[t].surf] = PipelineOf(t, surfaces[task[t].surf])


\* C15: the lock is never held across a suspension: a draw task suspended at
\* the load of its URI holds no lock, a thread holds the lock only inside one
\* of the synchronous sections, and the step a holder takes in its section
\* ends with the lock released and the task not suspended.
NoLockWhileSuspended ==
    /\ \A t \in Tasks : lockHolder = t => task[t].pc \in SectionPcs
    /\ lockHolder = "un" => un.pc \in {"un_stop", "un_canvas", "un_null", "un_graphics"}

SectionRunsToCompletion ==
    \A t \in Tasks :
        (lockHolder = t /\ task'[t] # task[t]) =>
            /\ lockHolder' = "free"
            /\ task'[t].pc \notin SectionPcs

LockNotHeldAcrossSuspension ==
    []NoLockWhileSuspended /\ [][SectionRunsToCompletion]_vars

\* C15, reached: a draw is suspended at its load while another thread is
\* inside a critical section.
SuspendedWhileLockInUse ==
    \E t \in Tasks :
        /\ task[t].pc = "ds_load"
        /\ lockHolder \in Tasks \ {t}


\* C16 as stated: every DrawBitmap that the backend carries out works inside
\* one critical section, resizes the surface only when the requested size is
\* unspecified, and then to the bitmap's size, clears before it composites,
\* and draws into the full rectangle of the size the surface has by then,
\* also when ResizeSurface changed that size after the creation.
DrawBitmapFillsSurface ==
    \A t \in Tasks :
        (task[t].pc = "db_draw" /\ BackendDraws(t) /\ task'[t] # task[t]) =>
            /\ lockHolder = t /\ lockHolder' = "free"
            /\ surfaces'[task[t].surf].size =
                  (IF IsEmpty(task[t].size) THEN task[t].bsize
                   ELSE surfaces[task[t].surf].size)
            /\ surfaces'[task[t].surf].content = "image"
            /\ surfaces'[task[t].surf].dst = surfaces'[task[t].surf].size

DrawBitmapDrawsFullSurface == [][DrawBitmapFillsSurface]_vars


\* C17 as stated: the lock cannot be lost or deadlocked: the step a holder
\* takes in its critical section leaves the lock free, also when the backend
\* fails inside it; no operation acquires the lock while it holds it; and,
\* under fair scheduling, every operation that has come to wait for the lock,
\* the factory then having its lock reference, eventually acquires the lock.
HolderReleases ==
    \A t \in Tasks :
        (lockHolder = t /\ task'[t] # task[t]) => lockHolder' = "free"

NoNestedAcquisition ==
    \A t \in Tasks : task[t].pc \in LockPcs => lockHolder # t

WaitsForLock(t) == task[t].pc \in LockPcs /\ ~LockIsNull

IsStale(t) == task[t].cdev # bound \/ DeviceUnusable(task[t].cdev)

StaleDrawFails ==
    \A t \in Tasks :
        (task[t].pc \in {"ds_load", "db_draw"} /\ IsStale(t) /\ task'[t] # task[t]
         /\ task'[t].pc # "db_draw") =>
            /\ task'[t].pc = "idle"
            /\ surfaces'[task[t].surf].content = surfaces[task[t].surf].content
            /\ surfaces'[task[t].surf].bdev = surfaces[task[t].surf].bdev

DrawTakesBoundDevice ==
    \A t \in Tasks :
        (task[t].pc \in {"ds_getdev", "fb_getdev"} /\ task'[t] # task[t]
         /\ task'[t].pc # "idle") =>
            task'[t].cdev = bound

PaintsWithBoundDevice ==
    \A s \in 1..Len(surfaces) :
        (surfaces'[s].bdev # surfaces[s].bdev /\ surfaces'[s].bdev # NullDev) =>
            /\ surfaces'[s].bdev = bound
            /\ ~DeviceUnusable(bound)

OwnedDevicesReleased ==
    /\ m_isGraphicsDeviceCreator
    /\ un.done > 0 \/ un.pc \in {"un_null", "un_drop"}

HandlerStaysOut == OwnedDevicesReleased => dl' = dl

OnDeviceLostNotAfterUninitialize == [][HandlerStaysOut]_vars


\* C20 as stated: a draw task suspended at the load when Uninitialize runs
\* ends or fails cleanly on its resume: when its load has succeeded it finds
\* the lock reference in place, never the one Uninitialize dropped, and it
\* goes on to paint only with the compositing device unreleased; and a
\* re-dispatch task that raises DeviceReplaced leaves the factory's state
\* alone.
ResumeFindsLock ==
    \A t \in Tasks :
        (task[t].pc = "ds_load" /\ ~LoadFails(task[t].cdev) /\ task'[t] # task[t]) =>
            /\ ~LockIsNull
            /\ task'[t].pc = "db_draw" => ~BackendClosed

ReDispatchTouchesNothing ==
    (ev'.raised # ev.raised) => UNCHANGED <<factoryVars, backendVars, surfaces>>

InFlightTasksSurviveUninitialize ==
    [][ResumeFindsLock /\ ReDispatchTouchesNothing]_vars


\* C13 as stated: when several factories borrow the same compositing device
\* their critical sections never overlap, and tearing one of them down leaves
\* the lock usable by the others.
PeerInSection == peer.pc = "ps_create"

FactoryInSection ==
    \/ \E t \in Tasks : InSection(t)
    \/ un.pc \in {"un_stop", "un_canvas", "un_null", "un_graphics"}

BorrowersNeverOverlap == ~(PeerInSection /\ FactoryInSection)

\* C13: factories that borrow the same compositing device and were given the
\* same lock never have overlapping critical sections, and the lock stays
\* usable by the others after one of them was torn down: the teardown ends
\* with the lock released and drops only its own reference.
SharersNeverOverlap ==
    peer.given = "shared" =>
        /\ BorrowersNeverOverlap
        /\ PeerInSection => lockHolder = "peer"
        /\ FactoryInSection => lockHolder \in Tasks \cup {"un"}
        /\ un.done > 0 => lockHolder # "un"

\* C13, reached: the factory was torn down and the other factory is inside a
\* critical section under the lock the two were given.
PeerWorksAfterTeardown ==
    /\ peer.given = "shared"
    /\ un.done > 0
    /\ m_drawingLock = "null"
    /\ PeerInSection
    /\ lockHolder = "peer"

====
